---- MODULE Spec2Model ----
(***************************************************************************)
(* Model of the hierarchical category resolver of src/search.py            *)
(* (CategorySearcher and its collaborators), of the file naming of the     *)
(* branch-file generator (src/sub-sub-category-embeddings.py) and of the   *)
(* description script (src/create_category_tree/                           *)
(* 4_add_merged2description.py).                                           *)
(*                                                                         *)
(* Conventions                                                             *)
(*   - a Python str is a sequence of one-character strings;                *)
(*   - Python's None for an embedding is the empty tuple NoneEmb;          *)
(*   - a similarity is an integer: Score1 (100) stands for 1.0 and         *)
(*     CosineSimilarity returns sign(dot) * dot^2 * 100 / (|a|^2 |b|^2),   *)
(*     the image of the cosine under the strictly increasing map           *)
(*     c |-> 100 * sign(c) * c^2, so every comparison of two similarities  *)
(*     has the outcome it has in the code.  Embeddings are non-zero        *)
(*     vectors of one dimension, so no similarity is NaN;                  *)
(*   - a JSONL file is a record [exists, lines]; a line is blank, not      *)
(*     decodable, or holds one JSON object.                                *)
(***************************************************************************)
EXTENDS Integers, Sequences, FiniteSets, TLC

VARIABLES
    \* ---- the environment of a resolution (fixed while the resolver runs)
    userInput,      \* the text given to process
    llmResponse,    \* what the classifier endpoint answers for userInput
    embedResponse,  \* what the embedding endpoint answers, per request text
    store,          \* the taxonomy files: the index file and the branch files
    \* ---- CategorySearcher.process, one run
    pc,             \* position in process
    run,            \* number of the current run of process (1, 2, ...)
    guess,          \* [name, desc]: sub_cat_name, sub_cat_desc
    candidates,     \* records loaded by get_top_sub_candidates
    subEmb,         \* sub_emb
    topSub,         \* top_sub_candidates
    userEmb,        \* user_input_emb
    branch,         \* index of the next sub_candidate of the loop at line 264
    children,       \* what get_top_child_candidates returned, per branch
    aggregated,     \* aggregated_children
    outcome,        \* "running", "returned" or "raised"
    result,         \* the value process returned
    logged,         \* the logging.error messages of the run, in order
    calls,          \* the external calls and file loads made by the run, in order
    firstResult,    \* outcome, result and cause of run 1
    \* ---- one application of a ranking operation on its own
    rkOp,           \* which operation was applied ("none" before)
    rkIn,           \* its arguments
    rkOut,          \* the list it returned
    rkOutcome,      \* "returned" or "raised" ("none" before)
    \* ---- create_category_tree/4_add_merged2description.py, main
    mergedNames,    \* the category names of merged.json, in order of first occurrence
    progressFile,   \* progress.json: [exists, list]
    descPc,         \* position in main: "start", "loop" or "done"
    descRun,        \* number of the current run of the script (1, 2, ...)
    catInfoList,    \* cat_info_list
    descIdx,        \* idx of the loop at line 152, counted from 1
    processedCount, \* processed_count
    genCalls,       \* the calls of call_ollama_for_description of the run, in order
    listAtStart     \* cat_info_list as the run loaded or created it

procVars == <<pc, run, guess, candidates, subEmb, topSub, userEmb, branch,
              children, aggregated, outcome, result, logged, calls, firstResult>>
envVars == <<userInput, llmResponse, embedResponse, store>>
rankVars == <<rkOp, rkIn, rkOut, rkOutcome>>
descVars == <<mergedNames, progressFile, descPc, descRun, catInfoList, descIdx,
              processedCount, genCalls, listAtStart>>
vars == <<envVars, procVars, rankVars, descVars>>

----
\* Bounds of the model.
MaxLen == 3         \* longest list given to a ranking operation
MaxTopN == 3        \* largest top_n given to a ranking operation
MaxNegTopN == 1     \* top_n ranges over -MaxNegTopN .. MaxTopN
MaxRuns == 2        \* runs of process on the same input
MaxIndexLen == 4    \* most records of the sub-category index
MaxIndexLines == 3  \* most lines of an index file with lines that are skipped
MaxBranchLen == 2   \* most records of a branch file
MaxEntries == 3     \* most entries of the progress list
MaxDescRuns == 2    \* runs of the description script

\* Program constants.
Score1 == 100       \* the similarity 1.0
Score0 == 0         \* the similarity 0.0
TopSub == 3         \* top_n of the call of get_top_sub_candidates
TopChild == 5       \* top_n of the calls of get_top_child_candidates
TopFinal == 3       \* length of the final list
SaveEvery == 100    \* generated descriptions between two saves of the progress

----
\* ===== strings =====

\* Characters that Python's str.strip() removes.
Whitespace == {" "}

\* Characters that the pattern of sanitize_filename keeps: \w, CJK and '-'.
KeptChars == {"a", "b", "_", "-"}

RECURSIVE LStrip(_)
LStrip(s) ==
    IF s # <<>> /\ Head(s) \in Whitespace THEN LStrip(Tail(s)) ELSE s

RECURSIVE RStrip(_)
RStrip(s) ==
    IF s # <<>> /\ s[Len(s)] \in Whitespace
    THEN RStrip(SubSeq(s, 1, Len(s) - 1))
    ELSE s

\* str.strip()
Strip(s) == RStrip(LStrip(s))

\* Utils.sanitize_filename: every character outside the kept class becomes '_'.
SanitizeFilename(name) ==
    [i \in DOMAIN name |-> IF name[i] \in KeptChars THEN name[i] ELSE "_"]

----
\* ===== vectors and similarity =====

NoneEmb == <<>>

Dot(a, b) == a[1] * b[1] + a[2] * b[2]

\* Utils.cosine_similarity (see the conventions at the top).
CosineSimilarity(a, b) ==
    LET d == Dot(a, b)
        q == (d * d * Score1) \div (Dot(a, a) * Dot(b, b))
    IN  IF d < 0 THEN 0 - q ELSE q

----
\* ===== Python list operations =====

Min(a, b) == IF a < b THEN a ELSE b
Max(a, b) == IF a > b THEN a ELSE b

\* A slice that truncates nothing.
PySliceAll(s, n) == s

\* s[:n] of Python: a negative n counts from the end.
PySlice(s, n) ==
    IF n >= 0
    THEN SubSeq(s, 1, Min(n, Len(s)))
    ELSE SubSeq(s, 1, Max(Len(s) + n, 0))

\* Insert x into the descending list s behind every element whose key x[f] is
\* >= its own.
RECURSIVE InsertDesc(_, _, _)
InsertDesc(s, x, f) ==
    IF s = <<>> THEN <<x>>
    ELSE IF Head(s)[f] >= x[f]
         THEN <<Head(s)>> \o InsertDesc(Tail(s), x, f)
         ELSE <<x>> \o s

\* The same, in front of the elements of equal key: what an unstable sort may do.
RECURSIVE InsertDescUnstable(_, _, _)
InsertDescUnstable(s, x, f) ==
    IF s = <<>> THEN <<x>>
    ELSE IF Head(s)[f] > x[f]
         THEN <<Head(s)>> \o InsertDescUnstable(Tail(s), x, f)
         ELSE <<x>> \o s

RECURSIVE SortDescUnstable(_, _)
SortDescUnstable(s, f) ==
    IF s = <<>> THEN <<>>
    ELSE InsertDescUnstable(SortDescUnstable(SubSeq(s, 1, Len(s) - 1), f), s[Len(s)], f)

\* list.sort(key=lambda x: x.get(f, 0.0), reverse=True): descending, and stable
\* (elements of equal key keep their order).
RECURSIVE SortDesc(_, _)
SortDesc(s, f) ==
    IF s = <<>> THEN <<>>
    ELSE InsertDesc(SortDesc(SubSeq(s, 1, Len(s) - 1), f), s[Len(s)], f)

----
\* ===== the data of the model =====

Ids == {1, 2}
NameA == <<"a">>
NameASp == <<"a", " ">>
NameB == <<"b">>
DescD == <<"d">>
DescE == <<"e">>
TextT == <<"t">>
V10 == <<1, 0>>
V01 == <<0, 1>>
V11 == <<1, 1>>

SeqsUpTo(S, n) == UNION {[1..k -> S] : k \in 0..n}

\* A line of a JSONL file: blank, not decodable as JSON, or one JSON object.
NoRec == [id |-> 0, categoryname |-> <<>>, description |-> <<>>, embedding |-> NoneEmb]
BadLine == [kind |-> "bad", rec |-> NoRec]
RecLine(r) == [kind |-> "rec", rec |-> r]
MissingFile == [exists |-> FALSE, lines |-> <<>>]
FileOf(lines) == [exists |-> TRUE, lines |-> lines]
FileOfRecs(recs) == FileOf([i \in DOMAIN recs |-> RecLine(recs[i])])

----
\* ===== records =====

\* dict assignment r[f] = v
With(r, f, v) == (f :> v) @@ r

\* The dict key of remove_duplicates.
DupKey(cand) == <<cand.id, cand.categoryname, cand.description>>

----
\* ===== CategorySearcher: the ranking operations =====

\* The similarity that the loop of get_top_sub_candidates gives one candidate.
SubSimilarity(candidate, sub_cat_name, sub_emb) ==
    IF Strip(candidate.categoryname) = sub_cat_name
    THEN Score1
    ELSE IF candidate.embedding = NoneEmb
         THEN Score0
         ELSE CosineSimilarity(sub_emb, candidate.embedding)

\* get_top_sub_candidates from its loop on: score, sort, truncate.
RankSubCandidates(cands, sub_cat_name, sub_emb, top_n) ==
    LET scored == [i \in DOMAIN cands |->
                     With(cands[i], "similarity",
                          SubSimilarity(cands[i], sub_cat_name, sub_emb))]
    IN  PySlice(SortDesc(scored, "similarity"), top_n)

IsExactChild(record, predicted_child) ==
    Strip(record.categoryname) = Strip(predicted_child)

\* The score of a leaf taken against the embedding of the guessed description.
ChildSimilarityOfDescription(record, user_embedding) ==
    IF record.embedding = NoneEmb
    THEN Score0
    ELSE CosineSimilarity(subEmb, record.embedding)

\* The score that the loop of get_top_child_candidates gives one record.
ChildSimilarity(record, user_embedding) ==
    IF record.embedding = NoneEmb
    THEN Score0
    ELSE CosineSimilarity(user_embedding, record.embedding)

\* get_top_child_candidates without the exact-match branch.
RankChildCandidatesNoShortCut(child_candidates, predicted_child, user_embedding, top_n) ==
    LET scored == [i \in DOMAIN child_candidates |->
                     With(child_candidates[i], "child_similarity",
                          IF IsExactChild(child_candidates[i], predicted_child)
                          THEN Score1
                          ELSE ChildSimilarity(child_candidates[i], user_embedding))]
    IN  PySlice(SortDesc(scored, "child_similarity"), top_n)

\* get_top_child_candidates where the exact matches it returns are scored by
\* embedding like any other record.
RankChildCandidatesExactByEmbedding(child_candidates, predicted_child, user_embedding, top_n) ==
    LET exact_matches ==
            SelectSeq(child_candidates, LAMBDA r : IsExactChild(r, predicted_child))
        scored(recs) ==
            [i \in DOMAIN recs |->
                With(recs[i], "child_similarity", ChildSimilarity(recs[i], user_embedding))]
    IN  IF exact_matches # <<>>
        THEN PySlice(SortDesc(scored(exact_matches), "child_similarity"), top_n)
        ELSE PySlice(SortDesc(scored(child_candidates), "child_similarity"), top_n)

\* get_top_child_candidates on the records it loaded (a non-empty list): the
\* exact matches alone if there are any, else all records scored by embedding.
RankChildCandidates(child_candidates, predicted_child, user_embedding, top_n) ==
    LET exact_matches ==
            SelectSeq(child_candidates, LAMBDA r : IsExactChild(r, predicted_child))
        exact_scored ==
            [i \in DOMAIN exact_matches |->
                With(exact_matches[i], "child_similarity", Score1)]
        scored ==
            [i \in DOMAIN child_candidates |->
                With(child_candidates[i], "child_similarity",
                     ChildSimilarity(child_candidates[i], user_embedding))]
    IN  IF exact_matches # <<>>
        THEN PySlice(SortDesc(exact_scored, "child_similarity"), top_n)
        ELSE PySlice(SortDesc(scored, "child_similarity"), top_n)

\* remove_duplicates where a later record of the same key replaces the kept one.
RECURSIVE RemoveDuplicatesLastWins(_)
RemoveDuplicatesLastWins(cands) ==
    IF cands = <<>> THEN <<>>
    ELSE LET unique == RemoveDuplicatesLastWins(SubSeq(cands, 1, Len(cands) - 1))
             cand == cands[Len(cands)]
         IN  IF \E j \in DOMAIN unique : DupKey(unique[j]) = DupKey(cand)
             THEN [j \in DOMAIN unique |->
                     IF DupKey(unique[j]) = DupKey(cand) THEN cand ELSE unique[j]]
             ELSE Append(unique, cand)

\* remove_duplicates: a dict keyed by DupKey, filled in list order, a key that
\* is present is not overwritten; the dict's values in insertion order.
RECURSIVE RemoveDuplicates(_)
RemoveDuplicates(cands) ==
    IF cands = <<>> THEN <<>>
    ELSE LET unique == RemoveDuplicates(SubSeq(cands, 1, Len(cands) - 1))
             cand == cands[Len(cands)]
         IN  IF \E j \in DOMAIN unique : DupKey(unique[j]) = DupKey(cand)
             THEN unique
             ELSE Append(unique, cand)

\* The end of process: sort the unique children, keep the first top_n
\* (process passes TopFinal).
FinalRank(unique_children, top_n) ==
    PySlice(SortDesc(unique_children, "child_similarity"), top_n)

----
\* ===== FileLoader =====

\* load_jsonl: [] for a missing file; else the objects of the lines that are
\* not blank and decode, in file order.
LoadJsonl(file) ==
    IF ~file.exists
    THEN <<>>
    ELSE LET kept == SelectSeq(file.lines, LAMBDA l : l.kind = "rec")
         IN  [i \in DOMAIN kept |-> kept[i].rec]

\* get_top_child_candidates from the load on, for the file at the branch's path.
GetTopChildCandidates(file, predicted_child, user_embedding, top_n) ==
    LET child_candidates == LoadJsonl(file)
    IN  IF child_candidates = <<>>
        THEN <<>>
        ELSE RankChildCandidates(child_candidates, predicted_child, user_embedding, top_n)

----
\* ===== the ranking operations applied on their own (specification SpecRank) =====

TopNs == (0 - MaxNegTopN) .. MaxTopN
RkGuessNames == {NameA, NameB}
RkEmbs == {V10, V01, V11}
RkIndexRecs == [id : Ids, categoryname : {NameASp, NameB}, embedding : {NoneEmb, V10}]
RkLeafRecs == [id : Ids, categoryname : {NameASp, NameB}, description : {DescD},
               embedding : {NoneEmb, V10}]
RkLeafLines == {RecLine(r) : r \in RkLeafRecs} \cup {BadLine}
RkScoredRecs == [id : Ids, categoryname : {NameA, NameB}, description : {DescD, DescE},
                 embedding : {V10}, child_similarity : {Score1, 50}]

RkAggRecs == [id : Ids, categoryname : {NameB}, description : {DescD, DescE},
              embedding : {V10}, child_similarity : {Score1, 50}]

NoArgs == [list |-> <<>>, name |-> <<>>, emb |-> NoneEmb, top_n |-> 0]

\* (get_top_sub_candidates reaches its ranking with a non-empty list only.)
ApplyRankSub ==
    /\ rkOp = "none"
    /\ \E cands \in SeqsUpTo(RkIndexRecs, MaxLen) \ {<<>>}, name \in RkGuessNames,
          emb \in RkEmbs, n \in TopNs :
          /\ rkOp' = "sub"
          /\ rkIn' = [list |-> cands, name |-> name, emb |-> emb, top_n |-> n]
          /\ rkOut' = RankSubCandidates(cands, name, emb, n)
          /\ rkOutcome' = "returned"
    /\ UNCHANGED <<envVars, procVars, descVars>>

ApplyRankChild ==
    /\ rkOp = "none"
    /\ \E lines \in SeqsUpTo(RkLeafLines, MaxLen), name \in RkGuessNames,
          emb \in RkEmbs, n \in TopNs :
          /\ rkOp' = "child"
          /\ rkIn' = [list |-> lines, name |-> name, emb |-> emb, top_n |-> n]
          /\ rkOut' = GetTopChildCandidates(FileOf(lines), name, emb, n)
          /\ rkOutcome' = "returned"
    /\ UNCHANGED <<envVars, procVars, descVars>>

ApplyRemoveDuplicates ==
    /\ rkOp = "none"
    /\ \E cands \in SeqsUpTo(RkScoredRecs, MaxLen) :
          /\ rkOp' = "dedup"
          /\ rkIn' = [NoArgs EXCEPT !.list = cands]
          /\ rkOut' = RemoveDuplicates(cands)
          /\ rkOutcome' = "returned"
    /\ UNCHANGED <<envVars, procVars, descVars>>

ApplyAggregate ==
    /\ rkOp = "none"
    /\ \E cands \in SeqsUpTo(RkAggRecs, MaxLen), n \in TopNs :
          /\ rkOp' = "final"
          /\ rkIn' = [NoArgs EXCEPT !.list = cands, !.top_n = n]
          /\ rkOut' = FinalRank(RemoveDuplicates(cands), n)
          /\ rkOutcome' = "returned"
    /\ UNCHANGED <<envVars, procVars, descVars>>

\* What the branches return: lists of scored leaves, each in descending order
\* of score as get_top_child_candidates leaves them.  A leaf has the same score
\* in every branch that returns it (one input text, one stored embedding).
RkBranchRecs ==
    {r \in RkAggRecs :
        r.child_similarity = (IF r.description = DescD THEN Score1 ELSE 50)}
RkBranchLists ==
    {l \in SeqsUpTo(RkBranchRecs, MaxBranchLen) :
        \A i, j \in DOMAIN l : i < j => l[i].child_similarity >= l[j].child_similarity}

\* aggregated_children after the loop of process: the branches' lists, extended
\* one after the other in the order of the loop.
RECURSIVE ExtendAll(_)
ExtendAll(lists) ==
    IF lists = <<>> THEN <<>> ELSE Head(lists) \o ExtendAll(Tail(lists))

\* Lines 263-277 on the lists of the branches: extend, deduplicate, sort, truncate.
AggregateBranches(lists, top_n) ==
    FinalRank(RemoveDuplicates(ExtendAll(lists)), top_n)

ApplyAggregateBranches ==
    /\ rkOp = "none"
    /\ \E b1 \in RkBranchLists, b2 \in RkBranchLists :
          /\ rkOp' = "branches"
          /\ rkIn' = [NoArgs EXCEPT !.list = <<b1, b2>>, !.top_n = TopFinal]
          /\ rkOut' = AggregateBranches(<<b1, b2>>, TopFinal)
          /\ rkOutcome' = "returned"
    /\ UNCHANGED <<envVars, procVars, descVars>>

NextRank ==
    \/ ApplyRankSub
    \/ ApplyRankChild
    \/ ApplyRemoveDuplicates
    \/ ApplyAggregate
    \/ ApplyAggregateBranches

----
\* ===== LLMClient =====

\* A value of a JSON object's field as dict.get(key, "") sees it.
Missing == [t |-> "missing", s |-> <<>>]
Null == [t |-> "null", s |-> <<>>]
Str(s) == [t |-> "str", s |-> s]

\* What get_categories returns: None (shape "none") or the decoded JSON value,
\* of which the model keeps the shape and the first sub-category's two fields.
LlmValue(shape, name, desc) == [shape |-> shape, name |-> name, desc |-> desc]
LlmNone == LlmValue("none", Missing, Missing)

\* get_categories: None on a transport error, a non-2xx status, a body that is
\* not JSON and an envelope whose "response" is not JSON; else the decoded value
\* (of the envelope's "response", or of the body itself).
GetCategories(response) ==
    IF response.kind \in {"request_error", "http_error", "not_json", "envelope_not_json"}
    THEN LlmNone
    ELSE response.json

----
\* ===== EmbedClient =====

\* get_embedding: the vector of the response, None on any failure.
GetEmbedding(text) == embedResponse[text]

----
\* ===== CategorySearcher.process =====

NoPath == [id |-> 0, name |-> <<>>]
Call(op, text, path) == [op |-> op, text |-> text, path |-> path]

\* Path("./embeddings/{id}-{sanitized_name}.jsonl") of get_top_child_candidates.
BranchPath(sub_candidate) ==
    [id |-> sub_candidate.id, name |-> SanitizeFilename(sub_candidate.categoryname)]

\* f"./embeddings/{second_id}-{second_name}.jsonl" of the generator of the branch
\* files (sub-sub-category-embeddings.py): the node's name as it is.
GeneratorPath(second) ==
    [id |-> second.id, name |-> second.categoryname]

\* The file at a path: a path that names no file of the store is a missing file.
FileAt(path) ==
    IF path \in DOMAIN store.branch THEN store.branch[path] ELSE MissingFile

\* return value: process ends returning `value`, after logging `msgs`.
Return(value, msgs) ==
    /\ pc' = "done"
    /\ outcome' = "returned"
    /\ result' = value
    /\ logged' = logged \o msgs

\* An exception that nothing catches leaves process.
Raise ==
    /\ pc' = "done"
    /\ outcome' = "raised"
    /\ result' = <<>>
    /\ logged' = logged

\* Lines 232-250: the classifier call and the extraction of the guess.
Guess ==
    /\ pc = "start"
    /\ calls' = Append(calls, Call("classify", userInput, NoPath))
    /\ LET llm_result == GetCategories(llmResponse)
           name == llm_result.name
           desc == llm_result.desc
           logs == IF llm_result.shape = "none" THEN <<"llm_call_or_parse_failed">> ELSE <<>>
       IN  CASE llm_result.shape \in {"none", "null", "dict", "empty_list"} ->
                    /\ Return(<<>>, logs \o <<"llm_not_a_json_array">>)
                    /\ UNCHANGED guess
             [] llm_result.shape \in {"first_not_object", "sub_not_object"} ->
                    /\ Raise
                    /\ UNCHANGED guess
             [] llm_result.shape \in {"no_sub_category", "empty_sub_category"} ->
                    /\ Return(<<>>, <<"no_sub_category">>)
                    /\ UNCHANGED guess
             [] OTHER ->
                    IF name.t = "null" \/ desc.t = "null"
                    THEN /\ Raise
                         /\ UNCHANGED guess
                    ELSE IF Strip(name.s) = <<>> \/ Strip(desc.s) = <<>>
                    THEN /\ Return(<<>>, <<"empty_name_or_description">>)
                         /\ UNCHANGED guess
                    ELSE /\ guess' = [name |-> Strip(name.s), desc |-> Strip(desc.s)]
                         /\ pc' = "load_index"
                         /\ UNCHANGED <<outcome, result, logged>>
    /\ UNCHANGED <<envVars, rankVars, descVars, run, candidates, subEmb, topSub, userEmb, branch,
                   children, aggregated, firstResult>>

\* LoadIndex with a load that is not a pure read: it leaves the file empty.
LoadIndexConsuming ==
    /\ pc = "load_index"
    /\ calls' = Append(calls, Call("load_index", <<>>, NoPath))
    /\ store' = [store EXCEPT !.index = FileOf(<<>>)]
    /\ LET loaded == LoadJsonl(store.index)
       IN  /\ candidates' = loaded
           /\ IF loaded = <<>>
              THEN Return(<<>>,
                          (IF store.index.exists THEN <<>> ELSE <<"file_does_not_exist">>)
                          \o <<"index_load_failed", "no_sub_candidates">>)
              ELSE /\ pc' = "embed_desc"
                   /\ UNCHANGED <<outcome, result, logged>>
    /\ UNCHANGED <<userInput, llmResponse, embedResponse, rankVars, descVars, run, guess, subEmb,
                   topSub, userEmb, branch, children, aggregated, firstResult>>

\* LoadIndex where an index without records does not end the run.
LoadIndexGoesOn ==
    /\ pc = "load_index"
    /\ calls' = Append(calls, Call("load_index", <<>>, NoPath))
    /\ candidates' = LoadJsonl(store.index)
    /\ pc' = "embed_desc"
    /\ UNCHANGED <<envVars, rankVars, descVars, run, guess, subEmb, topSub, userEmb, branch,
                   children, aggregated, outcome, result, logged, firstResult>>

\* Lines 147-150 (and 252-255): get_top_sub_candidates loads the index; with no
\* record it returns [], and process logs and returns [].
LoadIndex ==
    /\ pc = "load_index"
    /\ calls' = Append(calls, Call("load_index", <<>>, NoPath))
    /\ LET loaded == LoadJsonl(store.index)
       IN  /\ candidates' = loaded
           /\ IF loaded = <<>>
              THEN Return(<<>>,
                          (IF store.index.exists THEN <<>> ELSE <<"file_does_not_exist">>)
                          \o <<"index_load_failed", "no_sub_candidates">>)
              ELSE /\ pc' = "embed_desc"
                   /\ UNCHANGED <<outcome, result, logged>>
    /\ UNCHANGED <<envVars, rankVars, descVars, run, guess, subEmb, topSub, userEmb, branch,
                   children, aggregated, firstResult>>

\* Lines 152-156 (and 252-255): the embedding of the guessed description.
EmbedDesc ==
    /\ pc = "embed_desc"
    /\ calls' = Append(calls, Call("embed", guess.desc, NoPath))
    /\ LET sub_emb == GetEmbedding(guess.desc)
       IN  /\ subEmb' = sub_emb
           /\ IF sub_emb = NoneEmb
              THEN Return(<<>>, <<"embed_failed", "embed_desc_failed", "no_sub_candidates">>)
              ELSE /\ pc' = "rank_sub"
                   /\ UNCHANGED <<outcome, result, logged>>
    /\ UNCHANGED <<envVars, rankVars, descVars, run, guess, candidates, topSub, userEmb, branch,
                   children, aggregated, firstResult>>

\* Lines 158-173 (and 252-255): the sub-category ranking.
RankSub ==
    /\ pc = "rank_sub"
    /\ LET top == RankSubCandidates(candidates, guess.name, subEmb, TopSub)
       IN  /\ topSub' = top
           /\ IF top = <<>>
              THEN Return(<<>>, <<"no_sub_candidates">>)
              ELSE /\ pc' = "embed_input"
                   /\ UNCHANGED <<outcome, result, logged>>
    /\ UNCHANGED <<envVars, rankVars, descVars, run, guess, candidates, subEmb, userEmb, branch,
                   children, aggregated, calls, firstResult>>

\* Lines 257-263: the embedding of the input text.
EmbedInput ==
    /\ pc = "embed_input"
    /\ calls' = Append(calls, Call("embed", userInput, NoPath))
    /\ LET user_input_emb == GetEmbedding(userInput)
       IN  /\ userEmb' = user_input_emb
           /\ IF user_input_emb = NoneEmb
              THEN Return(<<>>, <<"embed_failed", "embed_input_failed">>)
              ELSE /\ pc' = "branches"
                   /\ UNCHANGED <<outcome, result, logged>>
    /\ UNCHANGED <<envVars, rankVars, descVars, run, guess, candidates, subEmb, topSub, branch,
                   children, aggregated, firstResult>>

\* BranchStep where a branch without records ends process with [].
BranchStepAbortOnEmpty ==
    /\ pc = "branches"
    /\ branch <= Len(topSub)
    /\ LET sub_candidate == topSub[branch]
           target_filepath == BranchPath(sub_candidate)
           file == FileAt(target_filepath)
           found == GetTopChildCandidates(file, guess.name, userEmb, TopChild)
       IN  /\ calls' = Append(calls, Call("load_branch", <<>>, target_filepath))
           /\ IF LoadJsonl(file) = <<>>
              THEN /\ Return(<<>>, <<"branch_load_failed">>)
                   /\ UNCHANGED <<children, aggregated, branch>>
              ELSE /\ children' = Append(children, found)
                   /\ aggregated' = aggregated \o found
                   /\ branch' = branch + 1
                   /\ UNCHANGED <<pc, outcome, result, logged>>
    /\ UNCHANGED <<envVars, rankVars, descVars, run, guess, candidates, subEmb, topSub, userEmb,
                   firstResult>>

\* Lines 264-267 with 181-213: one iteration of the loop over the sub-category
\* candidates: load the branch's file, rank its records, extend the aggregate.
BranchStep ==
    /\ pc = "branches"
    /\ branch <= Len(topSub)
    /\ LET sub_candidate == topSub[branch]
           target_filepath == BranchPath(sub_candidate)
           file == FileAt(target_filepath)
           found == GetTopChildCandidates(file, guess.name, userEmb, TopChild)
       IN  /\ calls' = Append(calls, Call("load_branch", <<>>, target_filepath))
           /\ children' = Append(children, found)
           /\ aggregated' = aggregated \o found
           /\ logged' = logged
                        \o (IF file.exists THEN <<>> ELSE <<"file_does_not_exist">>)
                        \o (IF LoadJsonl(file) = <<>> THEN <<"branch_load_failed">> ELSE <<>>)
    /\ branch' = branch + 1
    /\ UNCHANGED <<envVars, rankVars, descVars, pc, run, guess, candidates, subEmb, topSub, userEmb,
                   outcome, result, firstResult>>

\* Lines 269-281: deduplicate, sort, truncate, return.
Aggregate ==
    /\ pc = "branches"
    /\ branch > Len(topSub)
    /\ LET unique_children == RemoveDuplicates(aggregated)
       IN  IF unique_children = <<>>
           THEN Return(<<>>, <<"no_child_candidates">>)
           ELSE Return(FinalRank(unique_children, TopFinal), <<>>)
    /\ UNCHANGED <<envVars, rankVars, descVars, run, guess, candidates, subEmb, topSub, userEmb,
                   branch, children, aggregated, calls, firstResult>>

\* The locals of a call of process, before its first statement.
ProcStart ==
    /\ pc = "start"
    /\ guess = [name |-> <<>>, desc |-> <<>>]
    /\ candidates = <<>>
    /\ subEmb = NoneEmb
    /\ topSub = <<>>
    /\ userEmb = NoneEmb
    /\ branch = 1
    /\ children = <<>>
    /\ aggregated = <<>>
    /\ outcome = "running"
    /\ result = <<>>
    /\ logged = <<>>
    /\ calls = <<>>

\* The caller calls process again on the same input, as main would in a loop:
\* every local of process is new; the files and the two services are the same.
Restart ==
    /\ pc = "done"
    /\ run < MaxRuns
    /\ run' = run + 1
    /\ firstResult' = IF run = 1
                      THEN [outcome |-> outcome, result |-> result]
                      ELSE firstResult
    /\ pc' = "start"
    /\ guess' = [name |-> <<>>, desc |-> <<>>]
    /\ candidates' = <<>>
    /\ subEmb' = NoneEmb
    /\ topSub' = <<>>
    /\ userEmb' = NoneEmb
    /\ branch' = 1
    /\ children' = <<>>
    /\ aggregated' = <<>>
    /\ outcome' = "running"
    /\ result' = <<>>
    /\ logged' = <<>>
    /\ calls' = <<>>
    /\ UNCHANGED <<envVars, rankVars, descVars>>

Next ==
    \/ Guess
    \/ LoadIndex
    \/ EmbedDesc
    \/ RankSub
    \/ EmbedInput
    \/ BranchStep
    \/ Aggregate
    \/ Restart

----
\* ===== create_category_tree/4_add_merged2description.py =====

\* call_ollama_for_description on the endpoint's answer: "" when the request
\* fails or anything else raises; the stripped "response" field of a JSON
\* object; else the stripped body as it is.
CallOllamaForDescription(response) ==
    IF response.kind \in {"request_error", "exception"}
    THEN <<>>
    ELSE Strip(response.text)

\* What the endpoint may answer to one call.
GenResponses ==
    {[kind |-> "request_error", text |-> <<>>],
     [kind |-> "envelope", text |-> <<" ">>],
     [kind |-> "envelope", text |-> <<"d", " ">>],
     [kind |-> "not_json", text |-> <<"e">>]}

\* The name of the i-th category: i characters, so that names differ.
EntryName(i) == [j \in 1..i |-> "a"]

Entry(id, name, desc) == [id |-> id, categoryname |-> name, description |-> desc]

\* Lines 128-131: the list created when there is no progress file.
NewCatInfoList(ordered_categories) ==
    [i \in DOMAIN ordered_categories |-> Entry(i, ordered_categories[i], <<>>)]

\* Lines 135-143: the position of the first entry without description, counted
\* from 1; one past the end when there is none.
ResumeIndex(cat_info_list) ==
    IF \E i \in DOMAIN cat_info_list : cat_info_list[i].description = <<>>
    THEN CHOOSE i \in DOMAIN cat_info_list :
            /\ cat_info_list[i].description = <<>>
            /\ \A j \in 1..(i - 1) : cat_info_list[j].description # <<>>
    ELSE Len(cat_info_list) + 1

GenCall(pos, name, returned) == [pos |-> pos, name |-> name, returned |-> returned]

\* Lines 120-151: load the progress list or create it, find where to resume.
DescStart ==
    /\ descPc = "start"
    /\ LET cat_info_list == IF progressFile.exists
                            THEN progressFile.list
                            ELSE NewCatInfoList(mergedNames)
       IN  /\ catInfoList' = cat_info_list
           /\ listAtStart' = cat_info_list
           /\ descIdx' = ResumeIndex(cat_info_list)
    /\ processedCount' = 0
    /\ genCalls' = <<>>
    /\ descPc' = "loop"
    /\ UNCHANGED <<envVars, procVars, rankVars, mergedNames, progressFile, descRun>>

\* save_progress: progress.json holds the list.
Saved(cat_info_list) == [exists |-> TRUE, list |-> cat_info_list]

\* DescStep without the test of line 154: every entry from the resume position
\* on gets a new description.
DescStepRegenerates ==
    /\ descPc = "loop"
    /\ descIdx <= Len(catInfoList)
    /\ \E response \in GenResponses :
          LET desc == CallOllamaForDescription(response)
              updated == [catInfoList EXCEPT ![descIdx].description = desc]
          IN  /\ catInfoList' = updated
              /\ genCalls' = Append(genCalls,
                                    GenCall(descIdx, catInfoList[descIdx].categoryname, desc))
              /\ processedCount' = processedCount + 1
              /\ progressFile' = IF (processedCount + 1) % SaveEvery = 0
                                 THEN Saved(updated)
                                 ELSE progressFile
    /\ descIdx' = descIdx + 1
    /\ UNCHANGED <<envVars, procVars, rankVars, mergedNames, descPc, descRun, listAtStart>>

\* Lines 152-161: one iteration of the loop: an entry without description gets
\* what call_ollama_for_description returns; every SaveEvery generated
\* descriptions the list is saved.
DescStep ==
    /\ descPc = "loop"
    /\ descIdx <= Len(catInfoList)
    /\ IF catInfoList[descIdx].description = <<>>
       THEN \E response \in GenResponses :
               LET desc == CallOllamaForDescription(response)
                   updated == [catInfoList EXCEPT ![descIdx].description = desc]
               IN  /\ catInfoList' = updated
                   /\ genCalls' = Append(genCalls,
                                         GenCall(descIdx, catInfoList[descIdx].categoryname,
                                                 desc))
                   /\ processedCount' = processedCount + 1
                   /\ progressFile' = IF (processedCount + 1) % SaveEvery = 0
                                      THEN Saved(updated)
                                      ELSE progressFile
       ELSE /\ UNCHANGED <<catInfoList, genCalls, processedCount>>
            /\ progressFile' = IF processedCount > 0 /\ processedCount % SaveEvery = 0
                               THEN Saved(catInfoList)
                               ELSE progressFile
    /\ descIdx' = descIdx + 1
    /\ UNCHANGED <<envVars, procVars, rankVars, mergedNames, descPc, descRun, listAtStart>>

\* Line 163: the final save.  (Lines 165-174 write the tree with descriptions
\* to another file and do not touch the list.)
DescFinish ==
    /\ descPc = "loop"
    /\ descIdx > Len(catInfoList)
    /\ progressFile' = Saved(catInfoList)
    /\ descPc' = "done"
    /\ UNCHANGED <<envVars, procVars, rankVars, mergedNames, descRun, catInfoList, descIdx,
                   processedCount, genCalls, listAtStart>>

\* The script is run again.
DescRestart ==
    /\ descPc = "done"
    /\ descRun < MaxDescRuns
    /\ descRun' = descRun + 1
    /\ descPc' = "start"
    /\ UNCHANGED <<envVars, procVars, rankVars, mergedNames, progressFile, catInfoList,
                   descIdx, processedCount, genCalls, listAtStart>>

NextDesc ==
    \/ DescStart
    \/ DescStep
    \/ DescFinish
    \/ DescRestart

\* The script is not running.
DescIdle ==
    /\ mergedNames = <<>>
    /\ progressFile = [exists |-> FALSE, list |-> <<>>]
    /\ descPc = "start"
    /\ descRun = 1
    /\ catInfoList = <<>>
    /\ descIdx = 1
    /\ processedCount = 0
    /\ genCalls = <<>>
    /\ listAtStart = <<>>

----
\* ===== the environments of the model =====

\* Classifier responses.
NameVals == {Missing, Null, Str(<<>>), Str(<<" ">>), Str(NameA), Str(<<" ", "a">>)}
DescVals == {Missing, Null, Str(<<" ">>), Str(DescD)}
JsonValues ==
    {LlmValue(s, Missing, Missing) :
        s \in {"null", "dict", "empty_list", "first_not_object", "no_sub_category",
               "empty_sub_category", "sub_not_object"}}
    \cup {LlmValue("guess", n, d) : n \in NameVals, d \in DescVals}
LLMResponses ==
    {[kind |-> k, json |-> LlmNone] :
        k \in {"request_error", "http_error", "not_json", "envelope_not_json"}}
    \cup {[kind |-> k, json |-> j] : k \in {"envelope", "bare"}, j \in JsonValues}
TypicalLLM == [kind |-> "envelope", json |-> LlmValue("guess", Str(<<" ", "a">>), Str(DescD))]

\* Embedder responses, per request text.
Texts == {TextT, DescD}
EmbedResponses == [Texts -> {NoneEmb, V10, V01}]
TypicalEmbed == (DescD :> V10) @@ (TextT :> V01)

\* Sub-category index records (id, categoryname, embedding).
Sub1 == [id |-> 1, categoryname |-> NameASp, embedding |-> V10]
Sub2 == [id |-> 2, categoryname |-> NameB, embedding |-> V01]
SubRecs == {Sub1, Sub2}
NoSubRec == [id |-> 0, categoryname |-> <<>>, embedding |-> NoneEmb]
IndexLines == {[kind |-> "rec", rec |-> r] : r \in SubRecs}
              \cup {[kind |-> "blank", rec |-> NoSubRec], [kind |-> "bad", rec |-> NoSubRec]}

\* Leaf records (id, categoryname, description, embedding).
Leaf1 == [id |-> 3, categoryname |-> NameA, description |-> DescD, embedding |-> V10]
Leaf2 == [id |-> 4, categoryname |-> NameB, description |-> DescD, embedding |-> V01]
Leaf3 == [id |-> 5, categoryname |-> NameB, description |-> DescE, embedding |-> V11]
Leaf4 == [id |-> 6, categoryname |-> NameB, description |-> DescD, embedding |-> NoneEmb]
Leaf5 == [id |-> 7, categoryname |-> NameB, description |-> DescD, embedding |-> V11]
Path1 == BranchPath(Sub1)
Path2 == BranchPath(Sub2)
BranchFiles(pool) == {MissingFile} \cup {FileOfRecs(s) : s \in SeqsUpTo(pool, MaxBranchLen)}
BranchStores ==
    {(Path1 :> f1) @@ (Path2 :> f2) :
        f1 \in BranchFiles({Leaf1, Leaf2, Leaf4}), f2 \in BranchFiles({Leaf3, Leaf5})}
TypicalBranches ==
    (Path1 :> FileOfRecs(<<Leaf2, Leaf4>>)) @@ (Path2 :> FileOfRecs(<<Leaf3>>))
TypicalIndex == [exists |-> TRUE, lines |-> <<[kind |-> "rec", rec |-> Sub2],
                                               [kind |-> "rec", rec |-> Sub1]>>]

\* The state after CategorySearcher is constructed and process is called.  The
\* environment varies one stage at a time: the classifier's response with a
\* typical store; the index file and the embedder with a typical classifier
\* response; the index records and the branch files with both services typical.
InitEnv ==
    /\ userInput = TextT
    /\ \/ /\ llmResponse \in LLMResponses
          /\ embedResponse = TypicalEmbed
          /\ store = [index |-> TypicalIndex, branch |-> TypicalBranches]
       \/ /\ llmResponse = TypicalLLM
          /\ embedResponse \in EmbedResponses
          /\ \E f \in {MissingFile} \cup {FileOf(l) : l \in SeqsUpTo(IndexLines, MaxIndexLines)} :
                store = [index |-> f, branch |-> TypicalBranches]
       \/ /\ llmResponse = TypicalLLM
          /\ embedResponse = TypicalEmbed
          /\ \E recs \in SeqsUpTo(SubRecs, MaxIndexLen), b \in BranchStores :
                store = [index |-> [exists |-> TRUE,
                                    lines |-> [i \in DOMAIN recs |->
                                                 [kind |-> "rec", rec |-> recs[i]]]],
                         branch |-> b]

RankIdle ==
    /\ rkOp = "none"
    /\ rkIn = NoArgs
    /\ rkOut = <<>>
    /\ rkOutcome = "none"

Init ==
    /\ InitEnv
    /\ ProcStart
    /\ run = 1
    /\ firstResult = [outcome |-> "none", result |-> <<>>]
    /\ RankIdle
    /\ DescIdle

Spec == Init /\ [][Next]_vars

\* The ranking operations on their own: the resolver is not running.
InitRank ==
    /\ userInput = TextT
    /\ llmResponse = TypicalLLM
    /\ embedResponse = TypicalEmbed
    /\ store = [index |-> TypicalIndex, branch |-> TypicalBranches]
    /\ ProcStart
    /\ run = 1
    /\ firstResult = [outcome |-> "none", result |-> <<>>]
    /\ RankIdle
    /\ DescIdle

SpecRank == InitRank /\ [][NextRank]_vars

\* The description script on its own: before its first run there is no progress
\* file (and merged.json names up to MaxEntries categories), or a progress file
\* of up to MaxEntries entries, each with or without a description.
EntryDescs == {<<>>, DescD, DescE}
ProgressLists ==
    UNION {{[i \in 1..n |-> Entry(i, EntryName(i), d[i])] : d \in [1..n -> EntryDescs]} :
              n \in 0..MaxEntries}
InitDesc ==
    /\ userInput = TextT
    /\ llmResponse = TypicalLLM
    /\ embedResponse = TypicalEmbed
    /\ store = [index |-> TypicalIndex, branch |-> TypicalBranches]
    /\ ProcStart
    /\ run = 1
    /\ firstResult = [outcome |-> "none", result |-> <<>>]
    /\ RankIdle
    /\ \E n \in 0..MaxEntries : mergedNames = [i \in 1..n |-> EntryName(i)]
    /\ \/ progressFile = [exists |-> FALSE, list |-> <<>>]
       \/ /\ progressFile \in {Saved(l) : l \in ProgressLists}
          /\ Len(progressFile.list) = Len(mergedNames)
    /\ descPc = "start"
    /\ descRun = 1
    /\ catInfoList = <<>>
    /\ descIdx = 1
    /\ processedCount = 0
    /\ genCalls = <<>>
    /\ listAtStart = <<>>

SpecDesc == InitDesc /\ [][NextDesc]_vars

----
\* ===== properties of the ranking operations =====

\* A scored record without its score field f.
Unscored(r, f) == [k \in (DOMAIN r) \ {f} |-> r[k]]

IsDescending(s, f) == \A i, j \in DOMAIN s : i < j => s[i][f] >= s[j][f]

\* Two records of equal score stand in `out` as they stand in `ranked`.
TiesInOrderOf(out, ranked, f) ==
    \A i, j \in DOMAIN out :
        (i < j /\ out[i][f] = out[j][f]) =>
            \E p, q \in DOMAIN ranked :
                /\ p < q
                /\ ranked[p] = Unscored(out[i], f)
                /\ ranked[q] = Unscored(out[j], f)

\* The records that get_top_child_candidates ranks: the exact matches if the
\* file has any, else all its records.
ChildRanked(file, predicted_child) ==
    LET recs == LoadJsonl(file)
        exact == SelectSeq(recs, LAMBDA r : IsExactChild(r, predicted_child))
    IN  IF exact # <<>> THEN exact ELSE recs

UnscoredSeq(s, f) == [i \in DOMAIN s |-> Unscored(s[i], f)]

\* C1: every ranking stage returns its list in descending order of score, and
\* records of equal score keep the relative order they had in the list that was
\* ranked (the index, the branch's records, the deduplicated concatenation).
C1_RankingSortedAndStable ==
    /\ rkOp = "sub" =>
          /\ IsDescending(rkOut, "similarity")
          /\ TiesInOrderOf(rkOut, rkIn.list, "similarity")
    /\ rkOp = "child" =>
          /\ IsDescending(rkOut, "child_similarity")
          /\ TiesInOrderOf(rkOut, ChildRanked(FileOf(rkIn.list), rkIn.name),
                           "child_similarity")
    /\ rkOp = "final" =>
          /\ IsDescending(rkOut, "child_similarity")
          /\ \A i, j \in DOMAIN rkOut :
                (i < j /\ rkOut[i].child_similarity = rkOut[j].child_similarity) =>
                    \E p, q \in DOMAIN RemoveDuplicates(rkIn.list) :
                        /\ p < q
                        /\ RemoveDuplicates(rkIn.list)[p] = rkOut[i]
                        /\ RemoveDuplicates(rkIn.list)[q] = rkOut[j]

\* C1 witness: a sub-category ranking that moved a record forward and returned
\* two different records of equal score.
C1_Witness ==
    /\ rkOp = "sub"
    /\ Len(rkOut) = 3
    /\ rkOut[1].similarity > rkOut[2].similarity
    /\ rkOut[2].similarity = rkOut[3].similarity
    /\ rkOut[2] # rkOut[3]
    /\ Unscored(rkOut[1], "similarity") # rkIn.list[1]

\* C2: in sub-category ranking a node named exactly like the guess has
\* similarity 1.0 and stands before every node that is not named like the guess
\* (so, whenever the index has such a node and a candidate is returned, the
\* first candidate is one).
C2_ExactMatchOutranks ==
    rkOp = "sub" =>
        /\ \A i \in DOMAIN rkOut :
              Strip(rkOut[i].categoryname) = rkIn.name => rkOut[i].similarity = Score1
        /\ \A i, j \in DOMAIN rkOut :
              (Strip(rkOut[i].categoryname) # rkIn.name
                 /\ Strip(rkOut[j].categoryname) = rkIn.name) => j < i
        /\ ((\E p \in DOMAIN rkIn.list : Strip(rkIn.list[p].categoryname) = rkIn.name)
              /\ rkOut # <<>>)
                 => Strip(rkOut[1].categoryname) = rkIn.name

\* The first position of key k in the list s.
FirstIndexOfKey(s, k) ==
    CHOOSE p \in DOMAIN s :
        /\ DupKey(s[p]) = k
        /\ \A q \in DOMAIN s : DupKey(s[q]) = k => p <= q

\* C3: remove_duplicates returns exactly one record for each (id, categoryname,
\* description) of its input, that record is the key's first occurrence, and the
\* records stand in the order of their first occurrences.
C3_RemoveDuplicatesFirstWins ==
    rkOp = "dedup" =>
        /\ \A p \in DOMAIN rkIn.list :
              Cardinality({i \in DOMAIN rkOut : DupKey(rkOut[i]) = DupKey(rkIn.list[p])}) = 1
        /\ \A i \in DOMAIN rkOut :
              /\ \E p \in DOMAIN rkIn.list : DupKey(rkIn.list[p]) = DupKey(rkOut[i])
              /\ rkOut[i] = rkIn.list[FirstIndexOfKey(rkIn.list, DupKey(rkOut[i]))]
        /\ \A i, j \in DOMAIN rkOut :
              i < j => FirstIndexOfKey(rkIn.list, DupKey(rkOut[i]))
                         < FirstIndexOfKey(rkIn.list, DupKey(rkOut[j]))

\* C3 witness: a list whose first and last records share a key and differ, with
\* a record of another key between them.
C3_Witness ==
    /\ rkOp = "dedup"
    /\ Len(rkIn.list) = 3
    /\ DupKey(rkIn.list[1]) = DupKey(rkIn.list[3])
    /\ rkIn.list[1] # rkIn.list[3]
    /\ DupKey(rkIn.list[1]) # DupKey(rkIn.list[2])
    /\ Len(rkOut) = 2

Count(s, x) == Cardinality({i \in DOMAIN s : s[i] = x})

\* C5 as stated: a branch whose file holds fewer than top_n records returns as
\* many records as the file holds, each a record of the file, also when a record
\* of the file is named exactly like the guess.
C5_SmallFileReturnsAll ==
    (rkOp = "child" /\ Len(LoadJsonl(FileOf(rkIn.list))) < rkIn.top_n) =>
        /\ Len(rkOut) = Len(LoadJsonl(FileOf(rkIn.list)))
        /\ \A i \in DOMAIN rkOut :
              \E p \in DOMAIN LoadJsonl(FileOf(rkIn.list)) :
                  LoadJsonl(FileOf(rkIn.list))[p] = Unscored(rkOut[i], "child_similarity")

\* C5 amended: a branch whose file holds fewer than top_n records returns, when
\* no record of the file is named exactly like the guess, every record of the
\* file once per occurrence and nothing else; when some record is named exactly
\* like the guess, exactly the records so named, in file order.
C5_SmallFileReturnsAllOrExact ==
    (rkOp = "child" /\ Len(LoadJsonl(FileOf(rkIn.list))) < rkIn.top_n) =>
        LET recs == LoadJsonl(FileOf(rkIn.list))
            got == UnscoredSeq(rkOut, "child_similarity")
        IN  IF \E p \in DOMAIN recs : IsExactChild(recs[p], rkIn.name)
            THEN got = SelectSeq(recs, LAMBDA r : IsExactChild(r, rkIn.name))
            ELSE /\ Len(got) = Len(recs)
                 /\ \A p \in DOMAIN recs : Count(got, recs[p]) = Count(recs, recs[p])

\* C5 witness: a file of two records, fewer than top_n, one of them named like
\* the guess; and a file of two records without such a record.
C5_Witness ==
    /\ rkOp = "child"
    /\ rkIn.top_n = 3
    /\ Len(LoadJsonl(FileOf(rkIn.list))) = 2
    /\ Len(rkIn.list) = 3
    /\ IsExactChild(LoadJsonl(FileOf(rkIn.list))[2], rkIn.name)
    /\ ~IsExactChild(LoadJsonl(FileOf(rkIn.list))[1], rkIn.name)
    /\ Len(rkOut) = 1

\* C9: with top_n <= 0 a ranking operation ends in an error and returns no list
\* of candidates.
C9_NonPositiveLimitRejected ==
    (rkOp \in {"sub", "child"} /\ rkIn.top_n <= 0) =>
        /\ rkOutcome = "raised"
        /\ rkOut = <<>>

\* C12: leaf ranking with a limit top_n >= 0.  If some record of the file is
\* named exactly like the guess, the branch returns the first top_n of the
\* records so named, in file order, each with score 1.0 whatever its embedding,
\* and no other record; if none is, every returned record is a record of the
\* file with the cosine of the input-text embedding and its own embedding as
\* score (0.0 for a record without embedding).
C12_ExactMatchShortCircuits ==
    (rkOp = "child" /\ rkIn.top_n >= 0) =>
        LET recs == LoadJsonl(FileOf(rkIn.list))
            exact == SelectSeq(recs, LAMBDA r : IsExactChild(r, rkIn.name))
        IN  IF exact # <<>>
            THEN /\ Len(rkOut) = Min(rkIn.top_n, Len(exact))
                 /\ \A i \in DOMAIN rkOut :
                       rkOut[i] = With(exact[i], "child_similarity", Score1)
            ELSE \A i \in DOMAIN rkOut :
                    /\ \E p \in DOMAIN recs :
                          recs[p] = Unscored(rkOut[i], "child_similarity")
                    /\ rkOut[i].child_similarity = ChildSimilarity(rkOut[i], rkIn.emb)

\* C12 witness: a file of three records, two of them named like the guess and
\* the third with an embedding equal to the input text's; with top_n = 1 the
\* branch returned the file's first exact match alone.
C12_Witness ==
    /\ rkOp = "child"
    /\ rkIn.top_n = 1
    /\ LET recs == LoadJsonl(FileOf(rkIn.list))
       IN  /\ Len(recs) = 3
           /\ ~IsExactChild(recs[1], rkIn.name)
           /\ recs[1].embedding = rkIn.emb
           /\ IsExactChild(recs[2], rkIn.name)
           /\ IsExactChild(recs[3], rkIn.name)
           /\ recs[2].embedding = NoneEmb
           /\ rkOut = <<With(recs[2], "child_similarity", Score1)>>

\* C16: the result of the aggregation does not depend on the order in which
\* the branches' lists are concatenated: under every permutation of the lists,
\* deduplication, sort and truncation give the same ordered list.
C16_BranchOrderIrrelevant ==
    rkOp = "branches" =>
        \A q \in Permutations(DOMAIN rkIn.list) :
            AggregateBranches([i \in DOMAIN rkIn.list |-> rkIn.list[q[i]]], rkIn.top_n)
                = rkOut

----
\* ===== properties of process =====

ReachedBranches == userEmb # NoneEmb

HasRecords(sub_candidate) == LoadJsonl(FileAt(BranchPath(sub_candidate))) # <<>>

\* The concatenation of what the branches with records returned.
RECURSIVE ConcatOfLive(_)
ConcatOfLive(b) ==
    IF b = 0 THEN <<>>
    ELSE ConcatOfLive(b - 1) \o (IF HasRecords(topSub[b]) THEN children[b] ELSE <<>>)

\* C6: a sub-category candidate whose file is absent or has no record yields no
\* leaf candidate and does not end the resolution: every branch is loaded, every
\* branch with records yields candidates, and process returns the aggregation
\* over those branches (the empty list when no branch has records), without
\* raising.
C6_AbsentBranchIsNotFatal ==
    (pc = "done" /\ ReachedBranches) =>
        /\ outcome = "returned"
        /\ Len(children) = Len(topSub)
        /\ Len(SelectSeq(calls, LAMBDA c : c.op = "load_branch")) = Len(topSub)
        /\ \A b \in DOMAIN topSub :
              IF HasRecords(topSub[b]) THEN children[b] # <<>> ELSE children[b] = <<>>
        /\ result = FinalRank(RemoveDuplicates(ConcatOfLive(Len(topSub))), TopFinal)
        /\ (\A b \in DOMAIN topSub : ~HasRecords(topSub[b])) => result = <<>>

\* C6 witness: the first branch's file is absent, a later branch has records,
\* and process returned candidates.
C6_Witness ==
    /\ pc = "done"
    /\ ReachedBranches
    /\ Len(topSub) >= 2
    /\ ~FileAt(BranchPath(topSub[1])).exists
    /\ \E b \in DOMAIN topSub : HasRecords(topSub[b])
    /\ result # <<>>

\* The run ended on a fatal condition: before the aggregation.
EndedFatal ==
    /\ pc = "done"
    /\ \/ ~ReachedBranches
       \/ outcome = "raised"

\* C7: a resolution that ends on a fatal condition ends in an outcome that is
\* not the empty list returned when all branches yield no candidate.
C7_FatalDistinctFromEmptySuccess ==
    EndedFatal => ~(outcome = "returned" /\ result = <<>>)

IndexLoaded == \E i \in DOMAIN calls : calls[i].op = "load_index"

\* C8: the load of a missing sub-category index fails; it does not return the
\* empty sequence that the load of an existing file without records returns.
C8_MissingIndexIsAnError ==
    (IndexLoaded /\ ~store.index.exists) =>
        /\ candidates # LoadJsonl(FileOf(<<>>))
        /\ pc = "done" => outcome = "raised"

DisplayNames == {NameA, NameASp, NameB}

\* C10: the file of a branch is addressed by the sub-category's id alone: under
\* any other display name the candidate addresses the same file.
C10_BranchFileKeyedByIdAlone ==
    \A b \in DOMAIN topSub : \A n \in DisplayNames :
        BranchPath([topSub[b] EXCEPT !.categoryname = n]) = BranchPath(topSub[b])

\* The classifier's response is malformed or empty: get_categories returned
\* None, or a value that is not a list whose first entry holds a first
\* sub-category with a name and a description that are non-empty strings.
MalformedResponse ==
    LET llm_result == GetCategories(llmResponse)
    IN  \/ llm_result.shape # "guess"
        \/ llm_result.name.t # "str"
        \/ llm_result.desc.t # "str"
        \/ Strip(llm_result.name.s) = <<>>
        \/ Strip(llm_result.desc.s) = <<>>

\* C11: a malformed or empty classifier response ends the run without an
\* exception leaving process, without candidates, and with the classifier call
\* as the run's only external call (no embedding call, no file load).
C11_MalformedResponseAbortsCleanly ==
    (pc = "done" /\ MalformedResponse) =>
        /\ outcome = "returned"
        /\ result = <<>>
        /\ logged # <<>>
        /\ calls = <<Call("classify", userInput, NoPath)>>

\* The calls of kind op that the run has made, in order.
CallsOf(op) == SelectSeq(calls, LAMBDA c : c.op = op)

\* The call failed: the classifier gave no value, the index gave no record, the
\* embedder gave no vector.  (A branch file without records fails no run.)
CallFailed(c) ==
    \/ c.op = "classify" /\ GetCategories(llmResponse).shape = "none"
    \/ c.op = "load_index" /\ LoadJsonl(store.index) = <<>>
    \/ c.op = "embed" /\ GetEmbedding(c.text) = NoneEmb

\* C13: at every point of a run the classifier has been called at most once,
\* the embedder at most twice and never twice on the same text, the index has
\* been loaded at most once, at most TopSub branch files have been loaded (the
\* k-th load is the load for the k-th sub-category candidate), and a call that
\* failed is the last call of the run.
C13_CallVolumeBounded ==
    /\ Len(CallsOf("classify")) <= 1
    /\ Len(CallsOf("embed")) <= 2
    /\ \A i, j \in DOMAIN CallsOf("embed") :
          i # j => CallsOf("embed")[i].text # CallsOf("embed")[j].text
    /\ Len(CallsOf("load_index")) <= 1
    /\ Len(CallsOf("load_branch")) <= TopSub
    /\ Len(CallsOf("load_branch")) <= Len(topSub)
    /\ \A k \in DOMAIN CallsOf("load_branch") :
          CallsOf("load_branch")[k].path = BranchPath(topSub[k])
    /\ \A i \in DOMAIN calls : CallFailed(calls[i]) => i = Len(calls)

\* C13 witness: a finished run over an index of four records that made one
\* classifier call, two embedder calls, one index load and three branch loads,
\* one of them of a missing file.
C13_Witness ==
    /\ pc = "done"
    /\ Len(candidates) = 4
    /\ Len(CallsOf("classify")) = 1
    /\ Len(CallsOf("embed")) = 2
    /\ Len(CallsOf("load_index")) = 1
    /\ Len(CallsOf("load_branch")) = TopSub
    /\ \E k \in DOMAIN CallsOf("load_branch") : ~FileAt(CallsOf("load_branch")[k].path).exists

\* The order of the external calls of process; every later call is a branch load.
OpOrder == <<"classify", "load_index", "embed", "embed">>

\* C14: the steps of a run occur in one order: classifier call, index load,
\* embedding of the guessed description, sub-category ranking, embedding of the
\* input text, one load and ranking per branch, aggregation; and a failure is
\* terminal: once the classifier's response is unusable, the index has no
\* record or an embedding call has failed, the run is over with that call as
\* its last, and it returned no candidate.
C14_FixedOrderFailureTerminal ==
    /\ \A i \in DOMAIN calls :
          calls[i].op = (IF i <= Len(OpOrder) THEN OpOrder[i] ELSE "load_branch")
    /\ Len(calls) >= 3 => calls[3].text = guess.desc
    /\ Len(calls) >= 4 => calls[4].text = userInput
    /\ guess.name # <<>> => Len(calls) >= 1
    /\ Len(calls) >= 2 => guess.name # <<>>
    /\ candidates # <<>> => Len(calls) >= 2
    /\ Len(calls) >= 3 => candidates # <<>>
    /\ subEmb # NoneEmb => Len(calls) >= 3
    /\ topSub # <<>> => subEmb # NoneEmb
    /\ Len(calls) >= 4 => topSub # <<>>
    /\ userEmb # NoneEmb => Len(calls) >= 4
    /\ Len(calls) >= 5 => userEmb # NoneEmb
    /\ Len(children) = Len(calls) - Min(Len(calls), Len(OpOrder))
    /\ result # <<>> => Len(children) = Len(topSub)
    /\ (calls # <<>> /\ MalformedResponse) =>
          /\ pc = "done"
          /\ Len(calls) = 1
          /\ result = <<>>
    /\ \A i \in DOMAIN calls :
          CallFailed(calls[i]) =>
              /\ pc = "done"
              /\ i = Len(calls)
              /\ result = <<>>
              /\ children = <<>>

\* C14 witness: the embedding of the input text failed after sub-category
\* candidates had been ranked; the run ended there and returned nothing.
C14_Witness ==
    /\ pc = "done"
    /\ Len(calls) = 4
    /\ Len(topSub) >= 2
    /\ CallFailed(calls[4])
    /\ result = <<>>

\* C15: a run that reached the loop over the branches has called the embedder
\* exactly twice, first on the guessed description and then on the input text;
\* every sub-category candidate not named like the guess that has an embedding
\* is scored by the cosine of the description's embedding with its own, and
\* every leaf not named like the guess that has an embedding is scored by the
\* cosine of the input text's embedding with its own.
C15_EmbeddingsNotInterchanged ==
    ReachedBranches =>
        /\ CallsOf("embed") = <<Call("embed", guess.desc, NoPath),
                                Call("embed", userInput, NoPath)>>
        /\ subEmb = GetEmbedding(guess.desc)
        /\ userEmb = GetEmbedding(userInput)
        /\ \A i \in DOMAIN topSub :
              (Strip(topSub[i].categoryname) # guess.name
                 /\ topSub[i].embedding # NoneEmb) =>
                    topSub[i].similarity =
                        CosineSimilarity(GetEmbedding(guess.desc), topSub[i].embedding)
        /\ \A b \in DOMAIN children : \A i \in DOMAIN children[b] :
              (~IsExactChild(children[b][i], guess.name)
                 /\ children[b][i].embedding # NoneEmb) =>
                    children[b][i].child_similarity =
                        CosineSimilarity(GetEmbedding(userInput), children[b][i].embedding)

\* C15 witness: a finished run with two different embeddings, a sub-category
\* candidate and a leaf scored by embedding, each with a score that the other
\* embedding would not have given.
C15_Witness ==
    /\ pc = "done"
    /\ ReachedBranches
    /\ subEmb # userEmb
    /\ \E i \in DOMAIN topSub :
          /\ Strip(topSub[i].categoryname) # guess.name
          /\ topSub[i].embedding # NoneEmb
          /\ topSub[i].similarity # CosineSimilarity(userEmb, topSub[i].embedding)
    /\ \E b \in DOMAIN children : \E i \in DOMAIN children[b] :
          /\ ~IsExactChild(children[b][i], guess.name)
          /\ children[b][i].embedding # NoneEmb
          /\ children[b][i].child_similarity
                # CosineSimilarity(subEmb, children[b][i].embedding)

\* C17: for every second-level node of the index, the path at which the
\* resolver looks for the node's branch file is the path under which the
\* generator wrote it, whatever characters the node's name holds.
C17_ResolverPathIsGeneratorPath ==
    \A i \in DOMAIN candidates :
        BranchPath(candidates[i]) = GeneratorPath(candidates[i])

----
\* ===== properties of the description script =====

\* C18: from the moment a run has loaded or created its list, the list keeps
\* its length and every entry its id, its name, its position and a description
\* that was not empty; the generator has been called at most once per entry,
\* only for entries whose description was empty, with the entry's name; the
\* run ends with the list saved; and if every call of a finished run returned
\* a non-empty text, no entry has an empty description.
C18_RunFillsOnlyEmptyDescriptions ==
    descPc \in {"loop", "done"} =>
        /\ Len(catInfoList) = Len(listAtStart)
        /\ \A i \in DOMAIN catInfoList :
              /\ catInfoList[i].id = listAtStart[i].id
              /\ catInfoList[i].categoryname = listAtStart[i].categoryname
              /\ listAtStart[i].description # <<>> =>
                    catInfoList[i].description = listAtStart[i].description
        /\ \A k \in DOMAIN genCalls :
              /\ genCalls[k].pos \in DOMAIN listAtStart
              /\ listAtStart[genCalls[k].pos].description = <<>>
              /\ genCalls[k].name = listAtStart[genCalls[k].pos].categoryname
              /\ catInfoList[genCalls[k].pos].description = genCalls[k].returned
        /\ \A k, l \in DOMAIN genCalls : k # l => genCalls[k].pos # genCalls[l].pos
        /\ descPc = "done" => progressFile = Saved(catInfoList)
        /\ (descPc = "done" /\ \A k \in DOMAIN genCalls : genCalls[k].returned # <<>>) =>
              \A i \in DOMAIN catInfoList : catInfoList[i].description # <<>>

\* C18 witness: a second run over a list that the first run left with an empty
\* description (its call failed) before an entry with a description; the run
\* called the generator, got texts, and ended with every description filled.
C18_Witness ==
    /\ descRun = 2
    /\ descPc = "done"
    /\ Len(listAtStart) = 3
    /\ listAtStart[1].description = <<>>
    /\ listAtStart[2].description # <<>>
    /\ listAtStart[3].description = <<>>
    /\ Len(genCalls) = 2
    /\ \A i \in DOMAIN catInfoList : catInfoList[i].description # <<>>

====
